---------------------------- MODULE Spec2Model ----------------------------
(***************************************************************************)
(* Model of the unity-egui bridge: the callback-mode frame driver          *)
(* (src/src/bridge.rs, UnityContext), its FFI entry points in the demo     *)
(* crate (src/demo/src/lib.rs, init/update) and the texture-id encoders    *)
(* of both modes (bridge.rs texture_id_to_u64, lib.rs                      *)
(* texture_id_from_native_to_pb).                                          *)
(*                                                                         *)
(* A u64 is represented by the set of its set bit positions (a subset of   *)
(* 0 .. WordBits-1), so that shifts lose the bits they lose in the code.   *)
(***************************************************************************)
EXTENDS Integers, Sequences, FiniteSets, TLC

VARIABLES
    process,     \* "running" | "aborted" | "hung": the host process
    escaped,     \* TRUE once a panic has unwound out of an extern "C" entry point
    alloc,       \* handle -> "none" | "live" | "freed": the Box<UnityContext> behind it
    releases,    \* handle -> number of times Box::from_raw + drop ran on it
    text,        \* handle -> UnityContext.text
    open,        \* handle -> TRUE while the engine has a begun, not yet ended frame
    call,        \* the inputs of the most recent entry-point call
    trace,       \* engine steps and host callbacks of the most recent call, in order
    result,      \* what UnityContext::update did in that call: "none"|"Ok"|"Err"|"panic"
    outcome,     \* how the entry point ended: "none"|"returned"|"aborted"|"unwound"
                 \* or "hung" (it never returns)
    openPaints,  \* begin_paint callbacks minus end_paint callbacks, over all calls
    faulted,     \* handle -> TRUE iff its latest update call panicked in App::update
    tidA, tidB,  \* two texture ids under encoding
    encA, encB,  \* their encodings
    tpc,         \* "in" | "u64" | "pb": which encoder has been applied
    pbIn,        \* the Input wire message a buffer decodes to
    rawIn,       \* the RawInput parse_input builds from it
    engine,      \* the time, scale and texture limit the engine runs with
    engineWas,   \* the same as the call before the latest left them
    target,      \* the width of usize on the build's target, in bits
    ipc,         \* "in" | "parsed"
    bproc,       \* batch variant: "running" | "aborted"
    bpc,         \* per host thread: "idle" | "begun" | "updated" | "ended" |
                 \* "encoded"
    inFrame,     \* CONTEXT is between begin_frame and end_frame
    BUFFER,      \* the shared output vector
    held,        \* per host thread, the bytes end returned that it still reads
    pending,     \* per host thread, the output its end took from end_frame and
                 \* has not yet written
    opened,      \* per host thread, the length of the Buffer its begin was
                 \* given for the cycle it is in
    bcall,       \* the batch entry point called last, its inputs and results
    boutcome,    \* "none" | "returned" | "aborted" | "unwound" | "pending"
    ctx,         \* the UnityContext values of the Rust API, by name
    initializer, \* the callback table the host passed to new, by name
    installed,   \* the instance whose logger is the process-wide logger
    moved,       \* that instance has been moved since init_log took the
                 \* address of its logger
    edited,      \* by name, the text of the latest TextEdit event the engine gave
    acall,       \* the API method called last and its arguments
    aresult      \* "none" | "Ok" | "panic"

vars == <<process, escaped, alloc, releases, text, open, call, trace, result,
          outcome, openPaints, faulted, tidA, tidB, encA, encB, tpc,
          pbIn, rawIn, engine, engineWas, target, ipc, bproc, bpc, inFrame, BUFFER, held, pending, opened,
          bcall,
          boutcome,
          ctx, initializer, installed, moved, edited, acall, aresult>>

bridgeVars == <<process, escaped, alloc, releases, text, open, call, trace,
                result, outcome, openPaints, faulted>>

texVars == <<tidA, tidB, encA, encB, tpc>>

inVars == <<pbIn, rawIn, engine, engineWas, target, ipc>>

batchVars == <<bproc, bpc, inFrame, BUFFER, held, pending, opened, bcall,
               boutcome>>

apiVars == <<ctx, initializer, installed, moved, edited, acall, aresult>>

----------------------------------------------------------------------------
(* Bounds *)

MaxIdBit == 1
MaxFree == 1
MaxSet == 1
MaxPrims == 2
MaxEvents == 1
MaxOpenPaints == 1
MaxReleases == 2
MaxInEvents == 3

(* u64 *)
WordBits == 64

----------------------------------------------------------------------------
(* u64 arithmetic on bit sets *)

Bits == 0 .. (WordBits - 1)

\* x << n on a u64: bits shifted past the top are lost
Shl(x, n) == {b + n : b \in x} \cap Bits

Zero == {}
One == {0}

\* sample u64 values: every combination of the low bits and the two top bits
IdBits == (0 .. MaxIdBit) \cup {WordBits - 2, WordBits - 1}
U64Values == SUBSET IdBits

----------------------------------------------------------------------------
(* egui::TextureId and its two encodings *)

Managed(id) == [kind |-> "Managed", id |-> id]
User(id) == [kind |-> "User", id |-> id]

TextureIds == {Managed(id) : id \in U64Values} \cup {User(id) : id \in U64Values}

\* bridge.rs: Managed(id) => id << 1, User(id) => id << 1 + 1, and in Rust
\* `+` binds tighter than `<<`, so the latter is id << (1 + 1)
texture_id_to_u64(tid) ==
    IF tid.kind = "Managed" THEN Shl(tid.id, 1) ELSE Shl(tid.id, 1 + 1)

\* a variant that writes a user id with the managed tag
texture_id_from_native_to_pb_sametag(tid) ==
    IF tid.kind = "Managed"
    THEN [tag |-> 1, managed |-> tid.id, user |-> Zero]
    ELSE [tag |-> 1, managed |-> Zero, user |-> tid.id]

\* lib.rs: TextureId::default() then tag and the field of the kind
texture_id_from_native_to_pb(tid) ==
    IF tid.kind = "Managed"
    THEN [tag |-> 1, managed |-> tid.id, user |-> Zero]
    ELSE [tag |-> 2, managed |-> Zero, user |-> tid.id]

NoEnc == [none |-> TRUE]

----------------------------------------------------------------------------
(* The engine's per-frame output (egui::FullOutput), as end_frame yields it *)

SeqsUpTo(S, n) == UNION {[1 .. k -> S] : k \in 0 .. n}

\* texture ids the engine uses in frames
FrameTextureIds == {Managed(One), User(One)}

Mesh(tid) == [kind |-> "Mesh", texture_id |-> tid]
Callback == [kind |-> "Callback", texture_id |-> Managed(Zero)]
Primitives == {Mesh(tid) : tid \in FrameTextureIds} \cup {Callback}

\* Option<String>: <<>> is None, <<s>> is Some(s)
OutputEvents ==
    { [typ |-> "TextEdit", current_text_value |-> <<"a">>],
      [typ |-> "Label", current_text_value |-> <<"b">>] }

\* repaint_after: zero is "paint now"
RepaintAfter == {0, 1}

\* the frames end_frame yields: every combination of repaint_after, frees,
\* upserts and primitives, and every list of platform events with either
\* repaint_after
FullOutput(r, fr, st, ps, evs) ==
    [repaint_after |-> r, free |-> fr, set |-> st, prims |-> ps, events |-> evs]
FullOutputs ==
    {FullOutput(r, fr, st, ps, <<>>) :
        r \in RepaintAfter, fr \in SeqsUpTo(FrameTextureIds, MaxFree),
        st \in SeqsUpTo(FrameTextureIds, MaxSet),
        ps \in SeqsUpTo(Primitives, MaxPrims)}
    \cup {FullOutput(r, <<>>, <<>>, <<>>, evs) :
             r \in RepaintAfter, evs \in SeqsUpTo(OutputEvents, MaxEvents)}

NoOutput == [repaint_after |-> 0, free |-> <<>>, set |-> <<>>, prims |-> <<>>,
             events |-> <<>>]

\* the host's input buffer: the bytes either are a well-formed Input message or not
Buffers == {[wf |-> TRUE], [wf |-> FALSE]}

----------------------------------------------------------------------------
(* UnityContext (bridge.rs) *)

Ev(cb, id, txt) == [cb |-> cb, id |-> id, text |-> txt]
Step(name) == Ev(name, Zero, "")

PaintCallbacks == {"rem_texture", "set_texture", "paint_mesh"}
HostCallbacks == PaintCallbacks \cup {"begin_paint", "end_paint"}

\* input.rs: merge_from_bytes(buffer).unwrap() panics on a malformed buffer
parse_input(buffer) == IF buffer.wf THEN "RawInput" ELSE "panic"

\* the text of the last TextEdit event that carries a value, else the old text
update_platform(txt, events) ==
    LET hits == {i \in 1 .. Len(events) :
                    /\ events[i].typ = "TextEdit"
                    /\ events[i].current_text_value # <<>>}
    IN  IF hits = {} THEN txt
        ELSE LET last == CHOOSE i \in hits : \A j \in hits : j <= i
             IN  events[last].current_text_value[1]

show_keyboard(txt) == Ev("show_keyboard", Zero, txt)
begin_paint == Step("begin_paint")
end_paint == Step("end_paint")
rem_texture(id) == Ev("rem_texture", texture_id_to_u64(id), "")
set_texture(id) == Ev("set_texture", texture_id_to_u64(id), "")

\* paint_mesh: a Mesh calls the host, a Callback is unimplemented!()
paint_mesh_panics(cp) == cp.kind = "Callback"
paint_mesh(cp) == Ev("paint_mesh", texture_id_to_u64(cp.texture_id), "")

\* index of the first primitive paint_mesh panics on, Len + 1 if there is none
FirstPanic(prims) ==
    LET bad == {i \in 1 .. Len(prims) : paint_mesh_panics(prims[i])}
    IN  IF bad = {} THEN Len(prims) + 1
        ELSE CHOOSE i \in bad : \A j \in bad : i <= j

\* a variant that uploads textures before it frees
PaintSequence_setsFirst(txt, output) ==
    LET stop == FirstPanic(output.prims)
        head == <<show_keyboard(txt), begin_paint>>
                \o [i \in 1 .. Len(output.set) |-> set_texture(output.set[i])]
                \o [i \in 1 .. Len(output.free) |-> rem_texture(output.free[i])]
                \o [i \in 1 .. (stop - 1) |-> paint_mesh(output.prims[i])]
    IN  IF stop <= Len(output.prims)
        THEN [result |-> "panic", trace |-> head]
        ELSE [result |-> "Ok", trace |-> head \o <<end_paint>>]

\* update, lines 100-113: show_keyboard, begin_paint, frees, sets, primitives
\* up to the first one paint_mesh panics on, end_paint
PaintSequence(txt, output) ==
    LET stop == FirstPanic(output.prims)
        head == <<show_keyboard(txt), begin_paint>>
                \o [i \in 1 .. Len(output.free) |-> rem_texture(output.free[i])]
                \o [i \in 1 .. Len(output.set) |-> set_texture(output.set[i])]
                \o [i \in 1 .. (stop - 1) |-> paint_mesh(output.prims[i])]
    IN  IF stop <= Len(output.prims)
        THEN [result |-> "panic", trace |-> head]
        ELSE [result |-> "Ok", trace |-> head \o <<end_paint>>]

FrameSteps == <<Step("begin_frame"), Step("app_update"), Step("end_frame")>>

\* a variant that paints whatever repaint_after says
UnityContext_update_alwaysPaint(self, buffer, fault, output) ==
    IF parse_input(buffer) = "panic"
    THEN [result |-> "panic", trace |-> <<>>, text |-> self.text, open |-> self.open]
    ELSE IF fault
    THEN [result |-> "panic", trace |-> <<Step("begin_frame"), Step("app_update")>>,
          text |-> self.text, open |-> TRUE]
    ELSE LET txt == update_platform(self.text, output.events)
             p == PaintSequence(txt, output)
         IN  [result |-> p.result, trace |-> FrameSteps \o p.trace,
              text |-> txt, open |-> FALSE]

\* UnityContext::update. self is [text, open]; fault says whether App::update
\* panics; output is what end_frame yields when it is reached.
UnityContext_update(self, buffer, fault, output) ==
    IF parse_input(buffer) = "panic"
    THEN [result |-> "panic", trace |-> <<>>, text |-> self.text, open |-> self.open]
    ELSE IF fault
    THEN [result |-> "panic", trace |-> <<Step("begin_frame"), Step("app_update")>>,
          text |-> self.text, open |-> TRUE]
    ELSE IF output.repaint_after # 0
    THEN [result |-> "Ok", trace |-> FrameSteps, text |-> self.text, open |-> FALSE]
    ELSE LET txt == update_platform(self.text, output.events)
             p == PaintSequence(txt, output)
         IN  [result |-> p.result, trace |-> FrameSteps \o p.trace,
              text |-> txt, open |-> FALSE]

----------------------------------------------------------------------------
(* The input decoder (input.rs): a wire Input message to egui's RawInput *)

\* Option<T>: <<>> is None, <<x>> is Some(x); a MessageField likewise
None == <<>>
Some(x) == <<x>>

\* proto Modifiers; an unset MessageField reads as the default instance
DefaultModifiers == [alt |-> FALSE, ctrl |-> FALSE, shift |-> FALSE,
                     mac_cmd |-> FALSE, command |-> FALSE]
CtrlModifiers == [DefaultModifiers EXCEPT !.ctrl = TRUE]
DefaultPos2 == [x |-> 0, y |-> 0]
SomePos2 == [x |-> 1, y |-> 2]

\* reading through a MessageField: the message if set, else its default instance
OrDefault(field, default) == IF field = None THEN default ELSE field[1]

\* proto Event with every field at its default; et "UNKNOWN" is an enum value
\* the schema does not know (enum_value() is Err)
DefaultEvent ==
    [et |-> "ET_NONE", paste |-> "", text |-> "", key |-> None,
     pointer_moved |-> None, pointer_button |-> None, scroll |-> None,
     zoom |-> 0, composition_update |-> ""]

KeyCodes == {"UNKNOWN", "KT_NONE", "A"}
ButtonCodes == {"UNKNOWN", "BT_NONE", "PRIMARY"}

KeyMessages ==
    {[key |-> k, pressed |-> TRUE, modifiers |-> m] :
        k \in KeyCodes, m \in {None, Some(CtrlModifiers)}}
ButtonMessages ==
    {[button |-> b, pos |-> p, pressed |-> TRUE, modifiers |-> None] :
        b \in ButtonCodes, p \in {None, Some(SomePos2)}}

\* the events the host sends: every tag, and for the tags with a nested
\* message that message absent, present, and present with bad contents
PbEvents ==
    {[DefaultEvent EXCEPT !.et = t] :
        t \in {"UNKNOWN", "ET_NONE", "COPY", "CUT", "POINTER_GONE",
               "COMPOSITION_START", "TOUCH", "KEY", "POINTER_MOVED",
               "POINTER_BUTTON", "SCROLL"}}
    \cup {[DefaultEvent EXCEPT !.et = "PASTE", !.paste = "p"],
          [DefaultEvent EXCEPT !.et = "TEXT", !.text = "t"],
          [DefaultEvent EXCEPT !.et = "ZOOM", !.zoom = 2],
          [DefaultEvent EXCEPT !.et = "COMPOSITION_UPDATE",
                               !.composition_update = "c"],
          [DefaultEvent EXCEPT !.et = "POINTER_MOVED",
                               !.pointer_moved = Some(SomePos2)],
          [DefaultEvent EXCEPT !.et = "SCROLL", !.scroll = Some(SomePos2)]}
    \cup {[DefaultEvent EXCEPT !.et = "KEY", !.key = Some(k)] : k \in KeyMessages}
    \cup {[DefaultEvent EXCEPT !.et = "POINTER_BUTTON", !.pointer_button = Some(b)] :
            b \in ButtonMessages}

\* egui::Event, one record shape for every variant
NativeEvent(kind) ==
    [kind |-> kind, str |-> "", key |-> "", button |-> "", pressed |-> FALSE,
     modifiers |-> DefaultModifiers, pos |-> DefaultPos2, zoom |-> 0]

\* input.rs:11-86: KT_NONE is None, every other key code maps to the egui key
\* of the same name
key_type_from_pb_to_native(t) == IF t = "KT_NONE" THEN None ELSE Some(t)

\* input.rs:88-97
button_type_from_pb_to_native(bt) == IF bt = "BT_NONE" THEN None ELSE Some(bt)

modifier_from_pb_to_native(m) ==
    [alt |-> m.alt, ctrl |-> m.ctrl, shift |-> m.shift, mac_cmd |-> m.mac_cmd,
     command |-> m.command]

pos2_from_pb_to_native(pos) == [x |-> pos.x, y |-> pos.y]

\* input.rs:99-155
event_from_pb_to_native(e) ==
    CASE e.et = "UNKNOWN" -> None
      [] e.et = "ET_NONE" -> None
      [] e.et = "COPY" -> Some(NativeEvent("Copy"))
      [] e.et = "CUT" -> Some(NativeEvent("Cut"))
      [] e.et = "PASTE" -> Some([NativeEvent("Paste") EXCEPT !.str = e.paste])
      [] e.et = "TEXT" -> Some([NativeEvent("Text") EXCEPT !.str = e.text])
      [] e.et = "KEY" ->
            LET kt == IF e.key = None \/ e.key[1].key = "UNKNOWN" THEN None
                      ELSE key_type_from_pb_to_native(e.key[1].key)
            IN  IF kt = None THEN None
                ELSE Some([NativeEvent("Key") EXCEPT
                        !.key = kt[1],
                        !.pressed = e.key[1].pressed,
                        !.modifiers = modifier_from_pb_to_native(
                            OrDefault(e.key[1].modifiers, DefaultModifiers))])
      [] e.et = "POINTER_MOVED" ->
            IF e.pointer_moved = None THEN None
            ELSE Some([NativeEvent("PointerMoved") EXCEPT
                    !.pos = pos2_from_pb_to_native(e.pointer_moved[1])])
      [] e.et = "POINTER_BUTTON" ->
            LET bt == IF \/ e.pointer_button = None
                         \/ e.pointer_button[1].button = "UNKNOWN"
                      THEN None
                      ELSE button_type_from_pb_to_native(e.pointer_button[1].button)
            IN  IF bt = None THEN None
                ELSE Some([NativeEvent("PointerButton") EXCEPT
                        !.pos = pos2_from_pb_to_native(
                            OrDefault(e.pointer_button[1].pos, DefaultPos2)),
                        !.button = bt[1],
                        !.pressed = e.pointer_button[1].pressed,
                        !.modifiers = modifier_from_pb_to_native(
                            OrDefault(e.pointer_button[1].modifiers,
                                      DefaultModifiers))])
      [] e.et = "POINTER_GONE" -> Some(NativeEvent("PointerGone"))
      [] e.et = "SCROLL" ->
            IF e.scroll = None THEN None
            ELSE Some([NativeEvent("Scroll") EXCEPT
                    !.pos = pos2_from_pb_to_native(e.scroll[1])])
      [] e.et = "ZOOM" -> Some([NativeEvent("Zoom") EXCEPT !.zoom = e.zoom])
      [] e.et = "COMPOSITION_START" -> Some(NativeEvent("CompositionStart"))
      [] e.et = "COMPOSITION_UPDATE" ->
            Some([NativeEvent("CompositionUpdate") EXCEPT !.str = e.composition_update])
      [] e.et = "TOUCH" -> None

\* a variant that gives up at the first event that does not decode
RECURSIVE decode_events_stops(_)
decode_events_stops(events) ==
    IF events = <<>> THEN <<>>
    ELSE LET ev == event_from_pb_to_native(Head(events))
         IN  IF ev = None THEN <<>>
             ELSE <<ev[1]>> \o decode_events_stops(Tail(events))

\* parse_input, lines 206-213: push every event that decodes, skip the others
RECURSIVE decode_events(_)
decode_events(events) ==
    IF events = <<>> THEN <<>>
    ELSE LET ev == event_from_pb_to_native(Head(events))
         IN  (IF ev = None THEN <<>> ELSE <<ev[1]>>) \o decode_events(Tail(events))

\* an integer of up to 64 bits, hi * 2^53 + lo with lo below 2^53: the wire
\* values of time and max_texture_side, and the f64 and usize made of them
Wide(hi, lo) == [hi |-> hi, lo |-> lo]

\* a variant that takes zero for a value
is_specified_orzero(v) == v >= 0

\* parse_input, line 196: the guard "if v > 0.0" on pixels_per_point
is_specified(v) == v > 0

\* parse_input, lines 193 and 199: the guard "if v > 0" on an integer field
is_positive(v) == v.hi > 0 \/ (v.hi = 0 /\ v.lo > 0)

\* k / 2 rounded to the nearest integer, a tie to the even one
half_to_even(k) ==
    IF k % 2 = 0 THEN k \div 2
    ELSE IF ((k - 1) \div 2) % 2 = 0 THEN (k - 1) \div 2 ELSE (k + 1) \div 2

\* integer as f64: a 53-bit significand, so exact below 2^53 and, from 2^53
\* to 2^54 where the f64 are the even integers, the nearest of them, a tie to
\* the one with the even significand
as_f64(v) ==
    IF v.hi = 0 THEN v ELSE Wide(v.hi, 2 * half_to_even(v.lo))

\* the widths usize has on the targets the crate builds for
PointerWidths == {32, 64}

\* integer as usize, of a value above zero (line 199): the low bits that fit
\* the target's usize. 2^53 is a multiple of 2^32 and lo is drawn far below it
as_usize(v) == IF target = 64 THEN v ELSE Wide(0, v.lo)

\* the wire values of pixels_per_point, a float
WireValues == {-1, 0, 2}

\* the wire values of time: a sentinel below zero, zero, a small value, and
\* values from 2^53 on, where not every integer is an f64
WireTimes ==
    {Wide(0, -1), Wide(0, 0), Wide(0, 2), Wide(1, 0), Wide(1, 1), Wide(1, 2),
     Wide(1, 3)}

\* the wire values of max_texture_side: the same, and one above 2^32
WireSides == {Wide(0, -1), Wide(0, 0), Wide(0, 2), Wide(1, 2)}

\* proto Input with every field at its default
DefaultInput ==
    [screen_rect |-> None, has_focus |-> FALSE, time |-> Wide(0, 0),
     pixels_per_point |-> 0, max_texture_side |-> Wide(0, 0), modifier |-> None,
     predicted_dt |-> 0, events |-> <<>>]

\* the messages that set numeric fields: every combination of them and of
\* the modifier field
NumericInputs ==
    {[DefaultInput EXCEPT !.time = t, !.pixels_per_point = p,
                          !.max_texture_side = m, !.modifier = md,
                          !.has_focus = TRUE, !.predicted_dt = 1] :
        t \in WireTimes, p \in WireValues, m \in WireSides,
        md \in {None, Some(CtrlModifiers)}}

\* the Input messages decoded: every event sequence up to the bound, and
\* every combination of the numeric fields and the modifier field
PbInputs ==
    {[DefaultInput EXCEPT !.events = es] : es \in SeqsUpTo(PbEvents, MaxInEvents)}
    \cup NumericInputs

rect_from_pb_to_native(rect) ==
    [min |-> IF rect.min = None THEN DefaultPos2
             ELSE pos2_from_pb_to_native(rect.min[1]),
     max |-> IF rect.max = None THEN DefaultPos2
             ELSE pos2_from_pb_to_native(rect.max[1])]

\* parse_input, lines 190-214, on the decoded message
raw_input_from_pb(pb_input) ==
    [screen_rect |-> IF pb_input.screen_rect = None THEN None
                     ELSE Some(rect_from_pb_to_native(pb_input.screen_rect[1])),
     has_focus |-> pb_input.has_focus,
     time |-> IF is_positive(pb_input.time)
              THEN Some(as_f64(pb_input.time)) ELSE None,
     pixels_per_point |-> IF is_specified(pb_input.pixels_per_point)
                          THEN Some(pb_input.pixels_per_point) ELSE None,
     max_texture_side |-> IF is_positive(pb_input.max_texture_side)
                          THEN Some(as_usize(pb_input.max_texture_side))
                          ELSE None,
     modifiers |-> IF pb_input.modifier # None
                   THEN modifier_from_pb_to_native(pb_input.modifier[1])
                   ELSE DefaultModifiers,
     predicted_dt |-> pb_input.predicted_dt,
     events |-> decode_events(pb_input.events)]

NoRawInput == [none |-> TRUE]

\* the engine's time, pixels_per_point and max_texture_side before any frame
EngineDefault ==
    [time |-> Wide(0, 0), pixels_per_point |-> 1, max_texture_side |-> Wide(0, 2048)]

\* Context::begin_frame(input), for the three values: one the input
\* specifies is taken, one it leaves unspecified stays as the engine has it
begin_frame(config, input) ==
    [time |-> IF input.time = None THEN config.time ELSE input.time[1],
     pixels_per_point |-> IF input.pixels_per_point = None
                          THEN config.pixels_per_point
                          ELSE input.pixels_per_point[1],
     max_texture_side |-> IF input.max_texture_side = None
                          THEN config.max_texture_side
                          ELSE input.max_texture_side[1]]

InIdle ==
    /\ pbIn = DefaultInput
    /\ rawIn = NoRawInput
    /\ engine = EngineDefault
    /\ engineWas = EngineDefault
    /\ target = 64
    /\ ipc = "in"

----------------------------------------------------------------------------
(* The batch variant (lib.rs): begin, update, end over the global CONTEXT *)

Threads == {"t1", "t2"}

\* a Duration as whole milliseconds, hi * 2^32 + lo, and whether a part of a
\* millisecond remains
Duration(hi, lo, sub) == [hi |-> hi, lo |-> lo, sub |-> sub]
is_zero(d) == d.hi = 0 /\ d.lo = 0 /\ ~d.sub
Durations ==
    {Duration(0, 0, FALSE), Duration(0, 1, FALSE), Duration(0, 0, TRUE),
     Duration(1, 0, FALSE)}

\* as_millis() as u32: the low 32 bits of the whole milliseconds
as_millis_u32(d) == d.lo

SomeRect == [min |-> DefaultPos2, max |-> SomePos2]
SomeVertex == [pos |-> SomePos2, uv |-> DefaultPos2, color |-> <<255, 255, 255, 255>>]

\* epaint primitives as tessellate yields them: the meshes of native_update's
\* panel, and a paint callback, which code that shares the pub static CONTEXT
\* can add to the frame
BatchMesh(tid) ==
    [kind |-> "Mesh", clip_rect |-> SomeRect, vertices |-> <<SomeVertex>>,
     indices |-> <<0, 0, 0>>, texture_id |-> tid]
BatchCallback == [kind |-> "Callback", clip_rect |-> SomeRect]
BatchPrimitives == {BatchMesh(tid) : tid \in FrameTextureIds} \cup {BatchCallback}

\* textures_delta.set entries: an id and an ImageDelta with a colour image
ImageDelta(tid) ==
    [id |-> tid, filter |-> "Linear", pos |-> None,
     image |-> [kind |-> "Color", size |-> <<1, 1>>, pixels |-> <<<<1, 2, 3, 4>>>>]]
\* the same with a font image, as the engine's font atlas is: one coverage
\* value per pixel, here 1 (covered) or 0
FontImageDelta(tid) ==
    [id |-> tid, filter |-> "Linear", pos |-> None,
     image |-> [kind |-> "Font", size |-> <<2, 1>>, pixels |-> <<1, 0>>]]
\* the texture deltas of a frame: none, one upsert and one free, two upserts,
\* the font atlas
TextureDeltas ==
    {[set |-> <<>>, free |-> <<>>],
     [set |-> <<ImageDelta(Managed(One))>>, free |-> <<User(One)>>],
     [set |-> <<ImageDelta(Managed(One)), ImageDelta(User(One))>>, free |-> <<>>],
     [set |-> <<FontImageDelta(Managed(Zero))>>, free |-> <<>>]}

\* what CONTEXT.end_frame() and CONTEXT.tessellate() yield: every duration
\* with an empty frame, every texture delta with a repaint_after of 1 ms,
\* every primitive list with a repaint_after of zero
BatchOutput(d, td, ps) ==
    [repaint_after |-> d, set |-> td.set, free |-> td.free, prims |-> ps]
BatchOutputs ==
    {BatchOutput(d, [set |-> <<>>, free |-> <<>>], <<>>) : d \in Durations}
    \cup {BatchOutput(Duration(0, 1, FALSE), td, <<>>) : td \in TextureDeltas}
    \cup {BatchOutput(Duration(0, 0, FALSE), [set |-> <<>>, free |-> <<>>], ps) :
             ps \in SeqsUpTo(BatchPrimitives, MaxPrims)}

\* proto Output with every field at its default
DefaultOutput ==
    [repaint_after |-> 0, texture_set |-> <<>>, texture_free |-> <<>>,
     primitives |-> <<>>]

rect_from_native_to_pb(rect) ==
    [min |-> Some([x |-> rect.min.x, y |-> rect.min.y]),
     max |-> Some([x |-> rect.max.x, y |-> rect.max.y])]

RECURSIVE Flatten(_)
Flatten(ss) == IF ss = <<>> THEN <<>> ELSE Head(ss) \o Flatten(Tail(ss))

\* FontImage::srgba_pixels(1.0) for coverage 0 and 1: the premultiplied white
\* Color32 with alpha 255 * coverage, four bytes per pixel
srgba_pixels(pixels) ==
    [i \in 1 .. Len(pixels) |->
        LET a == 255 * pixels[i] IN <<a, a, a, a>>]

\* end, lines 258-284: one Texture per upsert, from a Color or a Font image
texture_to_pb(entry) ==
    [id |-> Some(texture_id_from_native_to_pb(entry.id)),
     texture_filter |-> IF entry.filter = "Nearest" THEN 1 ELSE 2,
     pos_x |-> IF entry.pos = None THEN 0 ELSE entry.pos[1][1],
     pos_y |-> IF entry.pos = None THEN 0 ELSE entry.pos[1][2],
     image |-> Some([width |-> entry.image.size[1],
                     height |-> entry.image.size[2],
                     data |-> IF entry.image.kind = "Color"
                              THEN Flatten(entry.image.pixels)
                              ELSE Flatten(srgba_pixels(entry.image.pixels))])]

\* unimplemented!("callback not supported")
Unimplemented == [panic |-> "callback not supported"]

\* end, lines 293-332: the ClippedPrimitive pushed for a mesh. pb_mesh and the
\* pbv of each vertex are built and dropped: nothing stores them in pb_cp.
\* A Callback panics
primitive_to_pb(cp) ==
    IF cp.primitive.kind = "Callback" THEN Unimplemented
    ELSE [clip_rect |-> Some(rect_from_native_to_pb(cp.clip_rect)),
          tag |-> 1,
          mesh |-> None]

\* a variant in which the Mesh arm fails as well
end_panics_onmesh(output) == output.prims # <<>>

\* end panics in its loop over the primitives
end_panics(output) ==
    \E i \in 1 .. Len(output.prims) :
        primitive_to_pb([clip_rect |-> output.prims[i].clip_rect,
                         primitive |-> output.prims[i]]) = Unimplemented

\* end, lines 255-333: pb_output
encode_output(output) ==
    [repaint_after |-> as_millis_u32(output.repaint_after),
     texture_set |-> [i \in 1 .. Len(output.set) |-> texture_to_pb(output.set[i])],
     texture_free |-> [i \in 1 .. Len(output.free) |->
                           texture_id_from_native_to_pb(output.free[i])],
     primitives |-> [i \in 1 .. Len(output.prims) |->
                         primitive_to_pb([clip_rect |-> output.prims[i].clip_rect,
                                          primitive |-> output.prims[i]])]]

\* the bytes of a message, kept as the message they decode to; the empty
\* vector is the encoding of the default message
write_to_vec(msg) == [bytes_of |-> msg]

\* Buffer { data, len } handed to begin, with the Input its bytes decode to
\* (malformed bytes decode to none): the null pointer of tests/test.rs, an empty
\* and a non-empty valid one, and bytes that are no message
SomeInput ==
    [DefaultInput EXCEPT !.time = Wide(0, 2),
                         !.events = <<[DefaultEvent EXCEPT !.et = "COPY"]>>]
BatchBuffers ==
    {[data |-> "null", len |-> 0, msg |-> Some(DefaultInput)],
     [data |-> "ptr", len |-> 0, msg |-> Some(DefaultInput)],
     [data |-> "ptr", len |-> 1, msg |-> Some(SomeInput)],
     [data |-> "ptr", len |-> 1, msg |-> None]}

NoInput == [none |-> TRUE]
BatchIdleCall ==
    [op |-> "none", t |-> "", buffer |-> [data |-> "ptr", len |-> 0,
                                          msg |-> Some(DefaultInput)],
     cycle |-> None, input |-> NoInput, output |-> NoInput,
     was_open |-> FALSE]

\* no Buffer of end in a thread's hands
NoBuffer == [none |-> TRUE]
\* no end between its CONTEXT.end_frame() and BUFFER.lock()
NoPending == [none |-> TRUE]

BatchIdle ==
    /\ bproc = "running"
    /\ bpc = [t \in Threads |-> "idle"]
    /\ inFrame = FALSE
    /\ BUFFER = write_to_vec(DefaultOutput)
    /\ held = [t \in Threads |-> NoBuffer]
    /\ pending = [t \in Threads |-> NoPending]
    /\ opened = [t \in Threads |-> None]
    /\ bcall = BatchIdleCall
    /\ boutcome = "none"

----------------------------------------------------------------------------
(* UnityContext as a Rust value (bridge.rs): new and the methods on it *)

Contexts == {"c1", "c2"}
Hosts == {"A", "B"}

\* the seven function pointers of UnityInitializer, as a host gives them
InitializerFields ==
    {"set_texture", "rem_texture", "begin_paint", "paint_mesh", "end_paint",
     "show_keyboard", "show_log"}
UnityInitializer(host) == [f \in InitializerFields |-> <<host, f>>]

\* the LevelFilter values set_log_level is called with: the two ends and one
\* between
LevelFilters == {"Off", "Warn", "Trace"}

NoContext == [none |-> TRUE]
NoInitializer == [none |-> TRUE]

\* a dropped UnityContext: its memory is released, and what a later read of
\* it finds is no longer decided by the value it held (ReleasedLoggers)
Dropped(self) == [dropped |-> TRUE]
IsLive(v) == v # NoContext /\ "text" \in DOMAIN v

\* UnityContext::new
UnityContext_new(init_table) ==
    [text |-> "",
     logger |-> [show_log |-> init_table["show_log"], log_level |-> "Trace"],
     unity |-> init_table,
     open |-> FALSE]

\* a variant that also points show_log away from the host's function
set_log_level_rewires(self, level) ==
    [self EXCEPT !.logger.log_level = level,
                 !.unity = [@ EXCEPT !["show_log"] = <<"none", "show_log">>]]

\* set_log_level
set_log_level(self, level) == [self EXCEPT !.logger.log_level = level]

\* platform output events for update_platform: OutputEvents and a TextEdit
\* without a value
ApiEvents ==
    OutputEvents \cup {[typ |-> "TextEdit", current_text_value |-> <<>>]}

\* the frames the Rust API is driven with: platform output only
ApiOutputs ==
    {[NoOutput EXCEPT !.repaint_after = r, !.events = evs] :
        r \in RepaintAfter, evs \in SeqsUpTo(ApiEvents, MaxEvents)}

\* the paint wrappers and show_keyboard, each a pub method a host crate can
\* call on its own: the callback it makes, or the panic of paint_mesh
WrapperCalls(self) ==
    {[cb |-> "begin_paint", result |-> "Ok", trace |-> <<begin_paint>>],
     [cb |-> "end_paint", result |-> "Ok", trace |-> <<end_paint>>],
     [cb |-> "show_keyboard", result |-> "Ok",
      trace |-> <<show_keyboard(self.text)>>]}
    \cup {[cb |-> "rem_texture", result |-> "Ok", trace |-> <<rem_texture(id)>>] :
             id \in FrameTextureIds}
    \cup {[cb |-> "set_texture", result |-> "Ok", trace |-> <<set_texture(id)>>] :
             id \in FrameTextureIds}
    \cup {[cb |-> "paint_mesh",
           result |-> IF paint_mesh_panics(cp) THEN "panic" ELSE "Ok",
           trace |-> IF paint_mesh_panics(cp) THEN <<>> ELSE <<paint_mesh(cp)>>] :
             cp \in Primitives}

\* the log::Level of the records emitted; LevelRank is the derived order of
\* Level and LevelFilter
Levels == {"Error", "Warn", "Info"}
LevelRank(l) ==
    CASE l = "Off" -> 0 [] l = "Error" -> 1 [] l = "Warn" -> 2
      [] l = "Info" -> 3 [] l = "Debug" -> 4 [] l = "Trace" -> 5

\* Log::enabled
enabled(logger, level) == LevelRank(logger.log_level) >= LevelRank(level)

log_level_to_unity(level) ==
    CASE level = "Error" -> 1 [] level = "Debug" -> 4 [] level = "Trace" -> 4
      [] level = "Info" -> 4 [] level = "Warn" -> 3

\* Log::log: the show_log call it makes, none when the level is filtered out
log(logger, level) ==
    IF ~enabled(logger, level) THEN <<>>
    ELSE <<[show_log |-> logger.show_log, level |-> log_level_to_unity(level)]>>

ApiIdleCall ==
    [op |-> "none", c |-> "", level |-> "", repaint_after |-> 0,
     before |-> "", trace |-> <<>>, via |-> ""]

ApiIdle ==
    /\ ctx = [c \in Contexts |-> NoContext]
    /\ initializer = [c \in Contexts |-> NoInitializer]
    /\ installed = "none"
    /\ moved = FALSE
    /\ edited = [c \in Contexts |-> ""]
    /\ acall = ApiIdleCall
    /\ aresult = "none"

----------------------------------------------------------------------------
(* The demo crate's entry points (demo/src/lib.rs) and the host that calls them *)

\* the instances init hands out
Handles == {"h1"}

\* the instance as the call found it
NoBefore == [alloc |-> "none", releases |-> 0, text |-> "", open |-> FALSE,
             faulted |-> FALSE]
Before(h) == [alloc |-> alloc[h], releases |-> releases[h], text |-> text[h],
              open |-> open[h], faulted |-> faulted[h]]

IdleCall == [op |-> "none", h |-> "", destroy |-> 0, buffer |-> [wf |-> TRUE],
             fault |-> FALSE, output |-> NoOutput, before |-> NoBefore]

Count(tr, cb) == Cardinality({i \in 1 .. Len(tr) : tr[i].cb = cb})
Has(tr, cb) == \E i \in 1 .. Len(tr) : tr[i].cb = cb

\* a panic that reaches the end of an extern "C" function either aborts the
\* process or unwinds into the host's frames, by toolchain and panic strategy
PanicAtBoundary == {"aborted", "unwound"}

BridgeInit ==
    /\ process = "running"
    /\ escaped = FALSE
    /\ alloc = [h \in Handles |-> "none"]
    /\ releases = [h \in Handles |-> 0]
    /\ text = [h \in Handles |-> ""]
    /\ open = [h \in Handles |-> FALSE]
    /\ faulted = [h \in Handles |-> FALSE]
    /\ call = IdleCall
    /\ trace = <<>>
    /\ result = "none"
    /\ outcome = "none"
    /\ openPaints = 0

TexIdle ==
    /\ tidA = Managed(Zero)
    /\ tidB = Managed(Zero)
    /\ encA = NoEnc
    /\ encB = NoEnc
    /\ tpc = "in"

Init == BridgeInit /\ TexIdle /\ InIdle /\ BatchIdle /\ ApiIdle

\* the host calls synchronously: one call at a time, none after the process died
HostCanCall == process = "running" /\ outcome = "none"

\* init: UnityContext::new, then Box::leak hands the instance to the host
init(h) ==
    /\ HostCanCall
    /\ alloc[h] = "none"
    /\ alloc' = [alloc EXCEPT ![h] = "live"]
    /\ text' = [text EXCEPT ![h] = ""]
    /\ open' = [open EXCEPT ![h] = FALSE]
    /\ call' = [IdleCall EXCEPT !.op = "init", !.h = h]
    /\ trace' = <<>>
    /\ result' = "none"
    /\ outcome' = "returned"
    /\ UNCHANGED <<process, escaped, releases, openPaints, faulted>>
    /\ UNCHANGED <<texVars, inVars, batchVars, apiVars>>

\* update with destroy == 0 where the memory behind the handle is read as an
\* instance: app.update(input), Err printed, a panic leaves through the boundary
RunUpdate(h, txt, buffer, fault, output) ==
    LET r == UnityContext_update([text |-> txt, open |-> open[h]],
                                 buffer, fault, output)
    IN  /\ trace' = r.trace
        /\ result' = r.result
        /\ text' = [text EXCEPT ![h] = r.text]
        /\ open' = [open EXCEPT ![h] = r.open]
        /\ faulted' = [faulted EXCEPT ![h] = (buffer.wf /\ fault)]
        /\ openPaints' = openPaints + Count(r.trace, "begin_paint")
                                    - Count(r.trace, "end_paint")
        /\ call' = [op |-> "update", h |-> h, destroy |-> 0, buffer |-> buffer,
                    fault |-> fault, output |-> output, before |-> Before(h)]
        /\ IF r.result = "panic"
           THEN \E how \in PanicAtBoundary :
                    /\ outcome' = how
                    /\ process' = IF how = "aborted" THEN "aborted" ELSE process
                    /\ escaped' = (escaped \/ how = "unwound")
           ELSE /\ outcome' = "returned"
                /\ UNCHANGED <<process, escaped>>
        /\ UNCHANGED <<alloc, releases>>

\* how a call that reads released memory fails: the process dies, or the
\* call blocks for good (as on the lock of the released engine context)
CrashOutcomes == {"aborted", "hung"}

\* the bytes the allocator has written over a released String buffer
GarbageText == "<bytes>"

\* self.text as update reads it: of a released instance the old text or
\* whatever has been written over it
TextsRead(h) == IF alloc[h] = "freed" THEN {text[h], GarbageText} ELSE {text[h]}

\* an access to released memory that the build turns into a failure: at once,
\* after a part of the frame, or after all of it (as the allocator's
\* double-free check does). Of the failed call, call keeps the handle and the
\* instance as found; the callbacks it made are in trace
Crash(h, txt, buffer, fault, output) ==
    /\ LET r == UnityContext_update([text |-> txt, open |-> open[h]],
                                    buffer, fault, output)
       IN  \E how \in CrashOutcomes, k \in 0 .. Len(r.trace) :
               /\ process' = how
               /\ outcome' = how
               /\ trace' = SubSeq(r.trace, 1, k)
               /\ openPaints' = openPaints + Count(trace', "begin_paint")
                                           - Count(trace', "end_paint")
    /\ result' = "none"
    /\ call' = [IdleCall EXCEPT !.op = "update", !.h = h, !.before = Before(h)]
    /\ UNCHANGED <<escaped, alloc, text, open, faulted>>

\* update with destroy != 0: Box::from_raw(app) is dropped, whatever the handle
Release(h) ==
    /\ alloc' = [alloc EXCEPT ![h] = "freed"]
    /\ releases' = [releases EXCEPT ![h] = @ + 1]
    /\ trace' = <<>>
    /\ result' = "none"
    /\ UNCHANGED <<text, open, openPaints, faulted, escaped>>

\* extern "C" fn update(input, data, destroy). No test of the handle's state:
\* on a released handle the destroy branch frees again and the update branch
\* reads released memory, both undefined, so each outcome a build can give
update(h, buffer, destroy, fault, output) ==
    /\ HostCanCall
    /\ alloc[h] # "none"
    /\ openPaints < MaxOpenPaints
    /\ IF destroy # 0
       THEN /\ buffer.wf /\ ~fault /\ output = NoOutput
            /\ releases[h] < MaxReleases
            /\ Release(h)
            /\ call' = [IdleCall EXCEPT !.op = "update", !.h = h,
                                        !.destroy = destroy, !.before = Before(h)]
            /\ \/ /\ outcome' = "returned"
                  /\ UNCHANGED process
               \/ /\ alloc[h] = "freed"
                  /\ outcome' = "aborted"
                  /\ process' = "aborted"
       ELSE /\ ~buffer.wf => ~fault
            /\ (~buffer.wf \/ fault) => output = NoOutput
            /\ \E txt \in TextsRead(h) :
                  \/ RunUpdate(h, txt, buffer, fault, output)
                  \/ /\ alloc[h] = "freed"
                     /\ Crash(h, txt, buffer, fault, output)
                     /\ UNCHANGED releases
    /\ UNCHANGED <<texVars, inVars, batchVars, apiVars>>

\* the host takes the call's return and is free to call again
HostReturn ==
    /\ process = "running"
    /\ outcome \in {"returned", "unwound"}
    /\ call' = IdleCall
    /\ trace' = <<>>
    /\ result' = "none"
    /\ outcome' = "none"
    /\ UNCHANGED <<process, escaped, alloc, releases, text, open, openPaints, faulted>>
    /\ UNCHANGED <<texVars, inVars, batchVars, apiVars>>

DestroyFlags == {0, 1}

\* the inputs a call consumes: a destroy call reads none; App::update runs, and
\* may fault, only after a decode; end_frame yields an output only if reached
BuffersFor(destroy) == IF destroy # 0 THEN {[wf |-> TRUE]} ELSE Buffers
FaultsFor(destroy, buffer) ==
    IF destroy # 0 \/ ~buffer.wf THEN {FALSE} ELSE BOOLEAN
OutputsFor(destroy, buffer, fault) ==
    IF destroy # 0 \/ ~buffer.wf \/ fault THEN {NoOutput} ELSE FullOutputs

Next ==
    \/ /\ HostCanCall
       /\ \E h \in Handles : init(h)
    \/ /\ HostCanCall
       /\ \E h \in Handles, destroy \in DestroyFlags :
            \E buffer \in BuffersFor(destroy) :
              \E fault \in FaultsFor(destroy, buffer) :
                \E output \in OutputsFor(destroy, buffer, fault) :
                  update(h, buffer, destroy, fault, output)
    \/ HostReturn

Spec == Init /\ [][Next]_vars

----------------------------------------------------------------------------
(* The texture-id encoders applied to pairs of ids *)

InitTex ==
    /\ BridgeInit
    /\ InIdle
    /\ BatchIdle
    /\ ApiIdle
    /\ tidA \in TextureIds
    /\ tidB \in TextureIds
    /\ encA = NoEnc
    /\ encB = NoEnc
    /\ tpc = "in"

EncodeU64 ==
    /\ tpc = "in"
    /\ encA' = texture_id_to_u64(tidA)
    /\ encB' = texture_id_to_u64(tidB)
    /\ tpc' = "u64"
    /\ UNCHANGED <<tidA, tidB>>
    /\ UNCHANGED <<bridgeVars, inVars, batchVars, apiVars>>

EncodePb ==
    /\ tpc = "in"
    /\ encA' = texture_id_from_native_to_pb(tidA)
    /\ encB' = texture_id_from_native_to_pb(tidB)
    /\ tpc' = "pb"
    /\ UNCHANGED <<tidA, tidB>>
    /\ UNCHANGED <<bridgeVars, inVars, batchVars, apiVars>>

NextTex == EncodeU64 \/ EncodePb

SpecTex == InitTex /\ [][NextTex]_vars

----------------------------------------------------------------------------
(* parse_input applied to Input messages *)

InitInput ==
    /\ BridgeInit
    /\ TexIdle
    /\ BatchIdle
    /\ ApiIdle
    /\ pbIn \in PbInputs
    /\ rawIn = NoRawInput
    /\ engine = EngineDefault
    /\ engineWas = EngineDefault
    /\ target = 64
    /\ ipc = "in"

ParseInput ==
    /\ ipc = "in"
    /\ rawIn' = raw_input_from_pb(pbIn)
    /\ ipc' = "parsed"
    /\ UNCHANGED <<pbIn, engine, engineWas, target>>
    /\ UNCHANGED <<bridgeVars, texVars, batchVars, apiVars>>

NextInput == ParseInput

SpecInput == InitInput /\ [][NextInput]_vars

----------------------------------------------------------------------------
(* Consecutive frames: each input is decoded and handed to the engine *)

InitFrames ==
    /\ BridgeInit
    /\ TexIdle
    /\ BatchIdle
    /\ ApiIdle
    /\ pbIn = DefaultInput
    /\ rawIn = NoRawInput
    /\ engine = EngineDefault
    /\ engineWas = EngineDefault
    /\ target \in PointerWidths
    /\ ipc = "in"

\* the start of a frame on a buffer that decodes to pb_input: the message is
\* turned into a RawInput and CONTEXT.begin_frame(input) takes it (begin,
\* lib.rs:30-57; UnityContext::update does the same in bridge.rs:92-93)
BeginFrame(pb_input) ==
    /\ pbIn' = pb_input
    /\ rawIn' = raw_input_from_pb(pb_input)
    /\ engineWas' = engine
    /\ engine' = begin_frame(engine, rawIn')
    /\ ipc' = "begun"
    /\ UNCHANGED target
    /\ UNCHANGED <<bridgeVars, texVars, batchVars, apiVars>>

NextFrames == \E pb_input \in NumericInputs : BeginFrame(pb_input)

SpecFrames == InitFrames /\ [][NextFrames]_vars

----------------------------------------------------------------------------
(* The batch variant's entry points *)

\* a panic or a crash inside an extern "C" entry point of the batch variant
BatchFault(t, op, buffer, how) ==
    /\ bcall' = [BatchIdleCall EXCEPT !.op = op, !.t = t, !.buffer = buffer,
                                      !.was_open = inFrame]
    /\ boutcome' = how
    /\ bproc' = IF how = "aborted" THEN "aborted" ELSE bproc
    /\ UNCHANGED <<bpc, inFrame, BUFFER, held, pending, opened>>

\* begin(buffer). The bytes are read through &*slice_from_raw_parts(data,
\* len): no byte is read for len 0, so a null data with len 0, as
\* tests/test.rs passes, decodes as the empty message like any other empty
\* buffer; merge_from_bytes(..).unwrap() panics on bytes that are no message
begin(t, buffer) ==
    /\ bproc = "running"
    /\ bpc[t] = "idle"
    /\ held[t] = NoBuffer
    /\ \/ /\ buffer.msg = None
          /\ \E how \in PanicAtBoundary : BatchFault(t, "begin", buffer, how)
       \/ /\ buffer.msg # None
          /\ bcall' = [BatchIdleCall EXCEPT
                          !.op = "begin", !.t = t, !.buffer = buffer,
                          !.input = raw_input_from_pb(buffer.msg[1]),
                          !.was_open = inFrame]
          /\ inFrame' = TRUE
          /\ bpc' = [bpc EXCEPT ![t] = "begun"]
          /\ opened' = [opened EXCEPT ![t] = Some(buffer.len)]
          /\ boutcome' = "returned"
          /\ UNCHANGED <<bproc, BUFFER, held, pending>>
    /\ UNCHANGED <<bridgeVars, texVars, inVars, apiVars>>

\* update(): native_update(&CONTEXT) lays out the panel
lib_update(t) ==
    /\ bproc = "running"
    /\ bpc[t] = "begun"
    /\ bpc' = [bpc EXCEPT ![t] = "updated"]
    /\ bcall' = [BatchIdleCall EXCEPT !.op = "update", !.t = t,
                                      !.cycle = opened[t],
                                      !.was_open = inFrame]
    /\ boutcome' = "returned"
    /\ UNCHANGED <<bproc, inFrame, BUFFER, held, pending, opened>>
    /\ UNCHANGED <<bridgeVars, texVars, inVars, apiVars>>

\* end(), line 255: CONTEXT.end_frame() closes the frame and yields the output.
\* No lock is held from here to line 334, so other threads' calls interleave
end_frame(t, output) ==
    /\ bproc = "running"
    /\ bpc[t] = "updated"
    /\ inFrame' = FALSE
    /\ pending' = [pending EXCEPT ![t] = [output |-> output, was_open |-> inFrame]]
    /\ bpc' = [bpc EXCEPT ![t] = "ended"]
    /\ bcall' = [BatchIdleCall EXCEPT !.op = "end_frame", !.t = t,
                                      !.cycle = opened[t],
                                      !.output = output, !.was_open = inFrame]
    /\ boutcome' = "pending"
    /\ UNCHANGED <<bproc, BUFFER, held, opened>>
    /\ UNCHANGED <<bridgeVars, texVars, inVars, apiVars>>

\* end(), lines 256-333: the texture deltas are encoded, CONTEXT.tessellate()
\* is called and the primitives are encoded into pb_output; a Callback
\* primitive panics there. The call then waits for BUFFER's mutex
tessellate(t) ==
    /\ bproc = "running"
    /\ bpc[t] = "ended"
    /\ bcall' = [BatchIdleCall EXCEPT !.op = "tessellate", !.t = t,
                                      !.cycle = opened[t],
                                      !.output = pending[t].output,
                                      !.was_open = inFrame]
    /\ IF end_panics(pending[t].output)
       THEN /\ \E how \in PanicAtBoundary :
                    /\ boutcome' = how
                    /\ bproc' = IF how = "aborted" THEN "aborted" ELSE bproc
            /\ bpc' = [bpc EXCEPT ![t] = "idle"]
            /\ pending' = [pending EXCEPT ![t] = NoPending]
            /\ opened' = [opened EXCEPT ![t] = None]
       ELSE /\ bpc' = [bpc EXCEPT ![t] = "encoded"]
            /\ boutcome' = "pending"
            /\ UNCHANGED <<bproc, pending, opened>>
    /\ UNCHANGED <<inFrame, BUFFER, held>>
    /\ UNCHANGED <<bridgeVars, texVars, inVars, apiVars>>

\* end(), lines 334-341, under BUFFER's mutex: BUFFER cleared and rewritten
\* with pb_output, a Buffer into it returned as the guard is dropped
end(t) ==
    /\ bproc = "running"
    /\ bpc[t] = "encoded"
    /\ BUFFER' = write_to_vec(encode_output(pending[t].output))
    /\ held' = [held EXCEPT ![t] = BUFFER']
    /\ pending' = [pending EXCEPT ![t] = NoPending]
    /\ opened' = [opened EXCEPT ![t] = None]
    /\ bpc' = [bpc EXCEPT ![t] = "idle"]
    /\ bcall' = [BatchIdleCall EXCEPT !.op = "end", !.t = t,
                                      !.cycle = opened[t],
                                      !.output = pending[t].output,
                                      !.was_open = pending[t].was_open]
    /\ boutcome' = "returned"
    /\ UNCHANGED <<bproc, inFrame>>
    /\ UNCHANGED <<bridgeVars, texVars, inVars, apiVars>>

\* the caller of end has read the bytes behind the Buffer it was given
read_buffer(t) ==
    /\ bproc = "running"
    /\ held[t] # NoBuffer
    /\ held' = [held EXCEPT ![t] = NoBuffer]
    /\ bcall' = [BatchIdleCall EXCEPT !.op = "read", !.t = t, !.was_open = inFrame]
    /\ boutcome' = "returned"
    /\ UNCHANGED <<bproc, bpc, inFrame, BUFFER, pending, opened>>
    /\ UNCHANGED <<bridgeVars, texVars, inVars, apiVars>>

InitBatch == BridgeInit /\ TexIdle /\ InIdle /\ BatchIdle /\ ApiIdle

NextBatch ==
    \/ \E t \in Threads, buffer \in BatchBuffers : begin(t, buffer)
    \/ \E t \in Threads : lib_update(t)
    \/ \E t \in Threads, output \in BatchOutputs : end_frame(t, output)
    \/ \E t \in Threads : tessellate(t)
    \/ \E t \in Threads : end(t)
    \/ \E t \in Threads : read_buffer(t)

SpecBatch == InitBatch /\ [][NextBatch]_vars

----------------------------------------------------------------------------
(* The Rust API driven by a host crate *)

ApiNew(c, host) ==
    /\ ctx[c] = NoContext
    /\ ctx' = [ctx EXCEPT ![c] = UnityContext_new(UnityInitializer(host))]
    /\ initializer' = [initializer EXCEPT ![c] = UnityInitializer(host)]
    /\ acall' = [ApiIdleCall EXCEPT !.op = "new", !.c = c]
    /\ aresult' = "Ok"
    /\ UNCHANGED <<installed, moved, edited>>
    /\ UNCHANGED <<bridgeVars, texVars, inVars, batchVars>>

\* UnityContext::update(&mut self, buffer): of self it assigns text alone.
\* edited follows the platform output of every frame the engine ended
ApiUpdate(c, output) ==
    /\ IsLive(ctx[c])
    /\ LET r == UnityContext_update([text |-> ctx[c].text, open |-> ctx[c].open],
                                    [wf |-> TRUE], FALSE, output)
       IN  /\ ctx' = [ctx EXCEPT ![c].text = r.text, ![c].open = r.open]
           /\ aresult' = r.result
           /\ acall' = [ApiIdleCall EXCEPT !.op = "update", !.c = c,
                                           !.repaint_after = output.repaint_after,
                                           !.before = ctx[c].text,
                                           !.trace = r.trace]
    /\ edited' = [edited EXCEPT ![c] = update_platform(@, output.events)]
    /\ UNCHANGED <<initializer, installed, moved>>
    /\ UNCHANGED <<bridgeVars, texVars, inVars, batchVars>>

\* update_platform(&mut self, platform) called on its own: text alone. The
\* events are platform output handed to the instance, so edited follows
ApiUpdatePlatform(c, events) ==
    /\ IsLive(ctx[c])
    /\ ctx' = [ctx EXCEPT ![c].text = update_platform(@, events)]
    /\ edited' = [edited EXCEPT ![c] = update_platform(@, events)]
    /\ acall' = [ApiIdleCall EXCEPT !.op = "update_platform", !.c = c,
                                    !.before = ctx[c].text]
    /\ aresult' = "Ok"
    /\ UNCHANGED <<initializer, installed, moved>>
    /\ UNCHANGED <<bridgeVars, texVars, inVars, batchVars>>

\* begin_paint, end_paint, rem_texture, set_texture, paint_mesh or
\* show_keyboard called on its own: one host callback, outside any update
ApiWrapper(c) ==
    /\ IsLive(ctx[c])
    /\ \E w \in WrapperCalls(ctx[c]) :
          /\ acall' = [ApiIdleCall EXCEPT !.op = w.cb, !.c = c,
                                          !.before = ctx[c].text,
                                          !.trace = w.trace]
          /\ aresult' = w.result
    /\ UNCHANGED <<ctx, initializer, installed, moved, edited>>
    /\ UNCHANGED <<bridgeVars, texVars, inVars, batchVars>>

ApiSetLogLevel(c, level) ==
    /\ IsLive(ctx[c])
    /\ ctx' = [ctx EXCEPT ![c] = set_log_level(ctx[c], level)]
    /\ acall' = [ApiIdleCall EXCEPT !.op = "set_log_level", !.c = c, !.level = level]
    /\ aresult' = "Ok"
    /\ UNCHANGED <<initializer, installed, moved, edited>>
    /\ UNCHANGED <<bridgeVars, texVars, inVars, batchVars>>

\* init_log(&self): set_logger(&self.logger), with the borrow transmuted to
\* 'static, succeeds once per process and its Err is unwrapped. The logger
\* installed is the address self.logger has during this call
init_log(c) ==
    /\ IsLive(ctx[c])
    /\ IF installed = "none"
       THEN installed' = c /\ aresult' = "Ok"
       ELSE aresult' = "panic" /\ UNCHANGED installed
    /\ acall' = [ApiIdleCall EXCEPT !.op = "init_log", !.c = c]
    /\ UNCHANGED <<ctx, initializer, moved, edited>>
    /\ UNCHANGED <<bridgeVars, texVars, inVars, batchVars>>

\* the instance is dropped, as by Box::from_raw in the demo's update with
\* destroy != 0; the process-wide logger is not unset (log has no such call)
ApiDrop(c) ==
    /\ IsLive(ctx[c])
    /\ ctx' = [ctx EXCEPT ![c] = Dropped(ctx[c])]
    /\ acall' = [ApiIdleCall EXCEPT !.op = "drop", !.c = c]
    /\ aresult' = "Ok"
    /\ UNCHANGED <<initializer, installed, moved, edited>>
    /\ UNCHANGED <<bridgeVars, texVars, inVars, batchVars>>

\* the host crate moves the instance, a UnityContext being an ordinary Rust
\* value: into a Box as demo/src/lib.rs:37 does, into a Vec, out of a
\* function. Its fields are copied to the new place and the old place is
\* given up; the process-wide logger still holds the address of the old one
ApiMove(c) ==
    /\ IsLive(ctx[c])
    /\ moved' = (moved \/ installed = c)
    /\ acall' = [ApiIdleCall EXCEPT !.op = "move", !.c = c]
    /\ aresult' = "Ok"
    /\ UNCHANGED <<ctx, initializer, installed, edited>>
    /\ UNCHANGED <<bridgeVars, texVars, inVars, batchVars>>

\* the reference init_log installed points at the logger of a live instance
\* that is where it was: neither dropped nor moved since
LoggerValid == installed # "none" /\ IsLive(ctx[installed]) /\ ~moved

\* what a read of a UnityLogger that is no longer there can find: the old
\* bytes (of a moved instance, its logger as it was before later
\* set_log_level calls), those of an instance built later in the same block,
\* or other bytes written over it, so any level filter with any host's
\* show_log
ReleasedLoggers ==
    {[show_log |-> UnityInitializer(host)["show_log"], log_level |-> level] :
        host \in Hosts, level \in LevelFilters}

\* a log record emitted anywhere in the process goes to the installed logger.
\* Where the instance has been dropped or moved that is a read through a
\* dangling reference: a logger as above, or a crash
ApiLog(level) ==
    /\ installed # "none"
    /\ \/ /\ LoggerValid
          /\ acall' = [ApiIdleCall EXCEPT !.op = "log", !.level = level,
                                          !.via = installed,
                                          !.trace = log(ctx[installed].logger, level)]
          /\ aresult' = "Ok"
       \/ /\ ~LoggerValid
          /\ \/ \E logger \in ReleasedLoggers :
                    /\ acall' = [ApiIdleCall EXCEPT
                                    !.op = "log", !.level = level, !.via = installed,
                                    !.trace = log(logger, level)]
                    /\ aresult' = "Ok"
             \/ /\ acall' = [ApiIdleCall EXCEPT !.op = "log", !.level = level,
                                                !.via = installed]
                /\ aresult' = "crash"
    /\ UNCHANGED <<ctx, initializer, installed, moved, edited>>
    /\ UNCHANGED <<bridgeVars, texVars, inVars, batchVars>>

InitApi == BridgeInit /\ TexIdle /\ InIdle /\ BatchIdle /\ ApiIdle

NextApi ==
    \/ \E c \in Contexts, host \in Hosts : ApiNew(c, host)
    \/ \E c \in Contexts, output \in ApiOutputs : ApiUpdate(c, output)
    \/ \E c \in Contexts, events \in SeqsUpTo(ApiEvents, MaxEvents) :
            ApiUpdatePlatform(c, events)
    \/ \E c \in Contexts : ApiWrapper(c)
    \/ \E c \in Contexts, level \in LevelFilters : ApiSetLogLevel(c, level)
    \/ \E c \in Contexts : init_log(c)
    \/ \E c \in Contexts : ApiDrop(c)
    \/ \E c \in Contexts : ApiMove(c)
    \/ \E level \in Levels : ApiLog(level)

SpecApi == InitApi /\ [][NextApi]_vars

----------------------------------------------------------------------------
(* Properties *)

Rank(cb) == CASE cb = "rem_texture" -> 1 [] cb = "set_texture" -> 2
              [] cb = "paint_mesh" -> 3 [] OTHER -> 0

UpdateCall == call.op = "update" /\ call.destroy = 0
OnLive == call.before.alloc = "live"
ReachedEndFrame == Has(trace, "end_frame")

\* C1: within one update call every rem_texture callback precedes every
\* set_texture callback, and every set_texture callback precedes every
\* paint_mesh callback.
C1_FreesThenSetsThenMeshes ==
    \A i, j \in 1 .. Len(trace) :
        (/\ i < j
         /\ trace[i].cb \in PaintCallbacks
         /\ trace[j].cb \in PaintCallbacks)
        => Rank(trace[i].cb) <= Rank(trace[j].cb)

C1_Witness ==
    /\ UpdateCall
    /\ Has(trace, "rem_texture")
    /\ Has(trace, "set_texture")
    /\ Has(trace, "paint_mesh")

\* C2: an update call that issues any paint-side callback issues begin_paint
\* exactly once and first, end_paint exactly once and last, so begin_paint and
\* end_paint are balanced after every call (unsupported primitives included).
C2_PaintBracketed ==
    LET cbs == {i \in 1 .. Len(trace) : trace[i].cb \in HostCallbacks}
    IN  /\ (UpdateCall /\ cbs # {}) =>
              /\ Count(trace, "begin_paint") = 1
              /\ Count(trace, "end_paint") = 1
              /\ \A i \in cbs : \A j \in cbs :
                    /\ (trace[i].cb = "begin_paint" /\ j # i) => i < j
                    /\ (trace[i].cb = "end_paint" /\ j # i) => j < i
        /\ openPaints = 0

\* C3: an update call on an instance whose end_frame yields a nonzero
\* repaint_after issues no rem_texture, set_texture, paint_mesh, begin_paint or
\* end_paint callback and returns Ok.
C3_NoPaintWhenRepaintLater ==
    (UpdateCall /\ OnLive /\ ReachedEndFrame /\ call.output.repaint_after # 0)
    => /\ result = "Ok"
       /\ \A i \in 1 .. Len(trace) : trace[i].cb \notin HostCallbacks

C3_Witness ==
    /\ UpdateCall
    /\ OnLive
    /\ ReachedEndFrame
    /\ call.output.repaint_after # 0
    /\ call.output.free # <<>>
    /\ call.output.set # <<>>
    /\ call.output.prims # <<>>
    /\ result = "Ok"

\* C4: an update call on a malformed input buffer returns a decode error to
\* its caller, runs no begin_frame, application update or end_frame, issues no
\* host callback, and leaves the engine state as it was.
C4_DecodeErrorReturned ==
    (UpdateCall /\ OnLive /\ ~call.buffer.wf)
    => /\ result = "Err"
       /\ trace = <<>>
       /\ text[call.h] = call.before.text
       /\ open[call.h] = call.before.open

\* C5: a fault raised inside an entry point during decoding, the application's
\* update pass or paint dispatch is caught there and becomes an error outcome;
\* it never leaves the entry point, neither by unwinding nor by killing the host.
C5_FaultsContained ==
    (UpdateCall /\ OnLive) => outcome \notin PanicAtBoundary

\* C6: after the application's update pass faulted in an update call, the next
\* update call on the same handle can be made, and with a well-formed input it
\* runs begin_frame, the application update and end_frame and returns Ok.
C6_UsableAfterAppFault ==
    /\ \A h \in Handles : (faulted[h] /\ alloc[h] = "live") => process = "running"
    /\ (UpdateCall /\ OnLive /\ call.before.faulted /\ call.buffer.wf /\ ~call.fault
        /\ \A i \in 1 .. Len(call.output.prims) : call.output.prims[i].kind = "Mesh")
       => /\ result = "Ok"
          /\ SubSeq(trace, 1, 3) = FrameSteps

\* C7: an update call with destroy == 0 on a handle that was destroyed is
\* rejected: it runs no frame cycle on the released instance and issues no host
\* callback.
C7_UpdateAfterDestroyRejected ==
    (UpdateCall /\ call.before.alloc = "freed") => trace = <<>>

\* C8: every instance is released at most once, and only by a call with
\* destroy != 0: never by an update call, never again by a repeated destroy.
C8_ReleasedAtMostOnce ==
    /\ \A h \in Handles : releases[h] <= 1
    /\ UpdateCall => releases[call.h] = call.before.releases

\* C9: texture_id_to_u64 is injective: two distinct texture ids (two managed,
\* two user, or one of each) never encode to the same u64.
C9_U64EncodingInjective ==
    (tpc = "u64" /\ tidA # tidB) => encA # encB

\* C10: texture_id_from_native_to_pb encodes Managed(id) as tag 1 with the id in
\* the managed field and User(id) as tag 2 with the id in the user field; reading
\* the field the tag names recovers kind and id, and distinct ids, a managed and
\* a user id included, encode differently.
C10_PbEncodingRoundTrips ==
    LET decode(e) == IF e.tag = 1 THEN Managed(e.managed) ELSE User(e.user)
        fields(t, e) == IF t.kind = "Managed"
                        THEN e.tag = 1 /\ e.managed = t.id
                        ELSE e.tag = 2 /\ e.user = t.id
    IN  tpc = "pb" =>
            /\ fields(tidA, encA)
            /\ fields(tidB, encB)
            /\ decode(encA) = tidA
            /\ decode(encB) = tidB
            /\ tidA # tidB => encA # encB

C10_Witness ==
    /\ tpc = "pb"
    /\ tidA.kind = "Managed"
    /\ tidB.kind = "User"
    /\ tidA.id = tidB.id
    /\ tidA.id # Zero


\* the positions of the wire events that decode to an engine event
Decodable(events) ==
    {i \in 1 .. Len(events) : event_from_pb_to_native(events[i]) # None}

\* C11: the decoded event sequence is exactly the subsequence of the wire
\* events that decode, in their original order, nothing duplicated: the k-th
\* decodable wire event is the k-th decoded event, and an event with an
\* unrecognized or ET_NONE tag is never among them.
C11_DecodedIsSubsequence ==
    ipc = "parsed" =>
        LET ok == Decodable(pbIn.events)
        IN  /\ Len(rawIn.events) = Cardinality(ok)
            /\ \A i \in ok :
                rawIn.events[Cardinality({j \in ok : j <= i})]
                    = event_from_pb_to_native(pbIn.events[i])[1]
            /\ \A i \in 1 .. Len(pbIn.events) :
                pbIn.events[i].et \in {"UNKNOWN", "ET_NONE"} => i \notin ok

\* three events in, the middle one with an unrecognized tag: two events out
C11_Witness ==
    /\ ipc = "parsed"
    /\ Len(pbIn.events) = 3
    /\ pbIn.events[1].et = "TEXT"
    /\ pbIn.events[2].et = "UNKNOWN"
    /\ pbIn.events[3].et = "COPY"
    /\ Len(rawIn.events) = 2
    /\ rawIn.events[1].kind = "Text"
    /\ rawIn.events[2].kind = "Copy"

\* the events the specification lists as dropped for a missing or malformed
\* nested field
Malformed(e) ==
    \/ /\ e.et = "KEY"
       /\ \/ e.key = None
          \/ e.key[1].key \in {"KT_NONE", "UNKNOWN"}
    \/ e.et = "POINTER_MOVED" /\ e.pointer_moved = None
    \/ /\ e.et = "POINTER_BUTTON"
       /\ \/ e.pointer_button = None
          \/ e.pointer_button[1].pos = None
          \/ e.pointer_button[1].button \in {"BT_NONE", "UNKNOWN"}
    \/ e.et = "SCROLL" /\ e.scroll = None

\* C12: an event whose required nested field is missing or malformed
\* produces no engine event: a message made only of such events decodes to
\* an empty event sequence.
C12_MalformedDropped ==
    (ipc = "parsed" /\ \A i \in 1 .. Len(pbIn.events) : Malformed(pbIn.events[i]))
        => rawIn.events = <<>>

Painting == UpdateCall /\ OnLive /\ ReachedEndFrame /\ call.output.repaint_after = 0

\* C14: when the tessellated output of a frame holds a Callback primitive the
\* update call fails with an error reported to its caller, and it never
\* reports success.
C14_CallbackIsError ==
    (Painting /\ \E i \in 1 .. Len(call.output.prims) :
                    call.output.prims[i].kind = "Callback")
    => /\ result = "Err"
       /\ outcome = "returned"

\* the set_texture callbacks of the current call, in order
SetTextureCalls == SelectSeq(trace, LAMBDA ev : ev.cb = "set_texture")

\* C16: every texture upsert of a frame's texture delta is delivered by
\* exactly one set_texture callback, in every update call that reaches
\* end_frame, and that callback precedes every paint_mesh callback.
C16_UpsertsDelivered ==
    (UpdateCall /\ OnLive /\ ReachedEndFrame)
    => /\ SetTextureCalls
            = [i \in 1 .. Len(call.output.set) |-> set_texture(call.output.set[i])]
       /\ \A i, j \in 1 .. Len(trace) :
            (trace[i].cb = "set_texture" /\ trace[j].cb = "paint_mesh") => i < j

\* C15: in the batch variant the begin, update, end sequence of one caller is
\* exclusive: while one thread is between its begin and its end, the other
\* thread has no frame of its own begun.
C15_FramesExclusive ==
    \A t, u \in Threads : (t # u /\ bpc[t] # "idle") => bpc[u] = "idle"

\* C17: begin on an empty buffer (length 0) returns and decodes it to a frame
\* with no events and every optional field unspecified; the update and the
\* end of the cycle so begun then run without fault, for the output of
\* native_update's panel (meshes, no Callback primitive), and end returns a
\* Buffer over the output it wrote.
C17_EmptyBufferCycle ==
    /\ (bcall.op = "begin" /\ bcall.buffer.len = 0)
       => /\ boutcome = "returned"
          /\ bcall.input # NoInput
          /\ bcall.input.events = <<>>
          /\ bcall.input.time = None
          /\ bcall.input.pixels_per_point = None
          /\ bcall.input.max_texture_side = None
          /\ bcall.input.screen_rect = None
    /\ (bcall.op = "update" /\ bcall.cycle = Some(0)) => boutcome = "returned"
    /\ (/\ bcall.op \in {"end_frame", "tessellate"}
        /\ bcall.cycle = Some(0)
        /\ \A i \in 1 .. Len(bcall.output.prims) :
                bcall.output.prims[i].kind # "Callback")
       => boutcome = "pending"
    /\ (bcall.op = "end" /\ bcall.cycle = Some(0))
       => /\ boutcome = "returned"
          /\ held[bcall.t] = BUFFER
          /\ BUFFER = write_to_vec(encode_output(bcall.output))

\* a cycle begun with an empty buffer, as in tests/test.rs, has gone through
\* update and end, and end has returned the Buffer of an output with meshes
C17_Witness ==
    /\ bcall.op = "end"
    /\ bcall.cycle = Some(0)
    /\ boutcome = "returned"
    /\ bcall.output.prims # <<>>
    /\ held[bcall.t] = BUFFER

\* C18: when end_frame yields a nonzero repaint_after, the Output that end
\* writes carries no texture upserts, no texture frees and no primitives.
C18_BatchSkipsWhenRepaintLater ==
    (bcall.op = "end" /\ ~is_zero(bcall.output.repaint_after))
    => /\ BUFFER.bytes_of.texture_set = <<>>
       /\ BUFFER.bytes_of.texture_free = <<>>
       /\ BUFFER.bytes_of.primitives = <<>>

\* C19: for every mesh primitive the engine produces, the Output that end
\* writes has one primitive at the same position which carries the mesh's
\* clip rectangle, all of its vertices, all of its indices and its texture id.
C19_MeshesEncoded ==
    bcall.op = "end" =>
        LET out == BUFFER.bytes_of.primitives
            prims == bcall.output.prims
        IN  /\ Len(out) = Len(prims)
            /\ \A i \in 1 .. Len(prims) :
                /\ out[i].clip_rect = Some(rect_from_native_to_pb(prims[i].clip_rect))
                /\ out[i].mesh # None
                /\ Len(out[i].mesh[1].vertices) = Len(prims[i].vertices)
                /\ out[i].mesh[1].indices = prims[i].indices
                /\ out[i].mesh[1].texture_id
                        = Some(texture_id_from_native_to_pb(prims[i].texture_id))

\* C20: the callback table stored in a UnityContext at construction is left
\* unchanged by every later operation on it: the instance holds the seven
\* function pointers the host passed to new, and its logger the host's
\* show_log, whatever has been called on it since.
C20_CallbackTableImmutable ==
    \A c \in Contexts :
        IsLive(ctx[c]) =>
            /\ ctx[c].unity = initializer[c]
            /\ ctx[c].logger.show_log = initializer[c]["show_log"]

\* an instance that was updated, had its log level changed and its logger
\* installed, next to an instance of another host
C20_Witness ==
    /\ IsLive(ctx["c1"])
    /\ IsLive(ctx["c2"])
    /\ ctx["c1"].unity = UnityInitializer("A")
    /\ ctx["c2"].unity = UnityInitializer("B")
    /\ ctx["c1"].text = "a"
    /\ ctx["c1"].logger.log_level = "Off"
    /\ ctx["c2"].logger.log_level = "Trace"
    /\ installed = "c1"
    /\ acall.op = "update"
    /\ acall.c = "c1"

\* the positions of a step or callback in the current call's trace
Positions(cb) == {i \in 1 .. Len(trace) : trace[i].cb = cb}

\* C21: every update call with a well-formed input performs exactly one
\* begin_frame, then exactly one App::update, then exactly one end_frame, and
\* every host callback of the call comes after the end_frame.
C21_OneFramePerUpdate ==
    (UpdateCall /\ OnLive /\ call.buffer.wf)
    => /\ Len(trace) >= 3
       /\ SubSeq(trace, 1, 3) = FrameSteps
       /\ Positions("begin_frame") = {1}
       /\ Positions("app_update") = {2}
       /\ Positions("end_frame") = {3}

\* the rem_texture and the paint_mesh callbacks of the current call, in order
RemTextureCalls == SelectSeq(trace, LAMBDA ev : ev.cb = "rem_texture")
PaintMeshCalls == SelectSeq(trace, LAMBDA ev : ev.cb = "paint_mesh")

\* the mesh primitives of the current call's frame, in order
MeshPrimitives == SelectSeq(call.output.prims, LAMBDA cp : cp.kind = "Mesh")

\* C22: a painting update call invokes rem_texture exactly once per id of the
\* free list, set_texture exactly once per entry of the upsert list and
\* paint_mesh exactly once per mesh primitive, each in the engine's order.
C22_OncePerItemInOrder ==
    Painting
    => /\ RemTextureCalls
            = [i \in 1 .. Len(call.output.free) |-> rem_texture(call.output.free[i])]
       /\ SetTextureCalls
            = [i \in 1 .. Len(call.output.set) |-> set_texture(call.output.set[i])]
       /\ PaintMeshCalls
            = [i \in 1 .. Len(MeshPrimitives) |-> paint_mesh(MeshPrimitives[i])]

ApiPainting == acall.op = "update" /\ acall.repaint_after = 0

\* C23: each painting update call invokes show_keyboard exactly once, before
\* begin_paint, with the text of the most recent TextEdit event carrying a
\* value over all update calls so far on the instance ("" if none).
C23_KeyboardTextIsLatestEdit ==
    ApiPainting =>
        LET shows == {i \in 1 .. Len(acall.trace) : acall.trace[i].cb = "show_keyboard"}
            begins == {i \in 1 .. Len(acall.trace) : acall.trace[i].cb = "begin_paint"}
        IN  /\ Cardinality(shows) = 1
            /\ \A i \in shows : \A j \in begins : i < j
            /\ \A i \in shows : acall.trace[i].text = edited[acall.c]

\* C27: the process-wide logger never refers to a released instance (the
\* reference init_log installed stays that of the logger of a live instance),
\* no log record is dispatched through the logger of a destroyed instance,
\* and init_log succeeds on every instance.
C27_LoggerOutlivesNoInstance ==
    /\ installed # "none" => LoggerValid
    /\ acall.op = "log" => (IsLive(ctx[acall.via]) /\ LoggerValid)
    /\ (acall.op = "init_log" /\ installed # acall.c) => aresult = "Ok"

\* C24: begin_frame and end_frame on the global engine strictly alternate,
\* starting with begin_frame: begin never runs begin_frame while a frame is
\* open and end never runs end_frame without an open frame.
C24_FramesAlternate ==
    /\ (bcall.op = "begin" /\ boutcome = "returned") => ~bcall.was_open
    /\ bcall.op = "end_frame" => bcall.was_open

\* C25: the bytes end returned stay unchanged in BUFFER for as long as the
\* caller that received them is still reading them.
C25_ReturnedBufferStable ==
    \A t \in Threads : held[t] # NoBuffer => BUFFER = held[t]

\* C26: the repaint_after that end encodes is zero if and only if the
\* engine's repaint_after duration is zero.
C26_ZeroIffPaintNow ==
    bcall.op = "end" =>
        (BUFFER.bytes_of.repaint_after = 0 <=> is_zero(bcall.output.repaint_after))

=============================================================================
